---- MODULE Spec2Model ----
(***************************************************************************)
(* Carpool bot: the relational store (trips, cars, car_members,            *)
(* join_requests), the slash-command and button handlers of commands/*.py  *)
(* that read and write it, and the interactive messages (buttons) whose    *)
(* values the handlers trust.  Every handler is one action; a handler's    *)
(* SQL statements run in one transaction and are taken as one step, except *)
(* in the specifications that split a handler to study interleavings.      *)
(***************************************************************************)
EXTENDS Integers, FiniteSets, Sequences, TLC

\* ------------------------------------------------------------------ bounds
Users == {"A", "B", "C"}
\* the users who issue /car, and who submit the home-tab views
Drivers == {"B", "C"}
\* the users who issue /in
Riders == {"A", "B"}
\* the channels, names and users of the /trip interleavings
TripChannels == {"X", "Y"}
TripNames2 == {"T1", "T2"}
TripUsers == {"A", "B"}
\* private channels in which slash commands are issued
Channels == {"X"}
TripNames == {"T1"}
\* largest seat count typed after /car or /update
MaxSeats == 2
\* interactive messages (buttons not yet pressed) outstanding at one time
MaxMsgs == 2
\* car rows in the table at one time
MaxCars == 2
\* handlers stopped between their reads and their writes at one time
MaxInflight == 1
\* approval messages outstanding at one time in the middleware flow
MaxApprovals == 1
\* largest car id among the rows the id allocators are applied to
MaxId == 5

\* seat counts a user may type: int(seats_str) accepts any integer
SeatInputs == 0 .. MaxSeats

\* car ids a button value or a view's callback id can carry
CarIds == 1 .. MaxCars
\* non-empty lists of distinct users named in one command or submission
UserLists == SUBSET Users \ {{}}

NoCar == 0
NoUser == "-"

\* the channels slash commands are typed in: private, public, and the
\* direct-message channel of one user
SlashChannels == {"X", "P", "DB"}
\* a direct-message channel takes the commands of its own user only
CanType(u, ch) == ch \in {"X", "P"} \/ ch = "D" \o u
\* a private channel and the direct-message channel of the driver B
OwnerChannels == {"X", "DB"}
\* outcomes of the conversations_info call of the middleware
ApiOutcomes == {"ok", "error", "exception"}

\* chat_postMessage(channel=<user id>) posts into the direct-message channel
\* of that user; an action on that message carries that channel's id.
DM(u) == "D" \o u

VARIABLES
    trips,          \* rows of trips: [name, channel_id, created_by, active]
    cars,           \* rows of cars: [id, trip, channel_id, seats, created_by]
    car_members,    \* rows of car_members: <<car_id, user_id>>
    join_requests,  \* rows of join_requests: <<car_id, user_id>>
    messages,       \* posted messages whose buttons can still be pressed
    inflight,       \* handlers that have read and not yet written: their open
                    \* transactions
    last            \* the last handler that ran and what it reported

vars == <<trips, cars, car_members, join_requests, messages, inflight, last>>

\* ------------------------------------------------------------------ helpers
Min(S) == CHOOSE x \in S : \A y \in S : x <= y
Max(S) == CHOOSE x \in S : \A y \in S : x >= y

\* A message with buttons.  kind "approve": the Approve/Deny message posted to
\* the car owner `to` for requester `user` (value "car_id:user").  kind
\* "switch": the Yes/Cancel message posted to `user` (value
\* "car_id:user:current_car_id", of which the handler reads the first two).  kind "update": the seat
\* update prompt shown to `to` (n the new seat count).
Msg(kind, car, user, to, n) ==
    [kind |-> kind, car |-> car, user |-> user, to |-> to, n |-> n]

\* messages is a bag: a set of <<message, copy>> with copies numbered 1..count
Copies(m) == {p \in messages : p[1] = m}
Post(m) == messages \cup {<<m, Cardinality(Copies(m)) + 1>>}
Remove(m) == messages \ {<<m, Cardinality(Copies(m))>>}
Pending(kind) == {p[1] : p \in {q \in messages : q[1].kind = kind}}
CanSend == Cardinality(messages) < MaxMsgs

\* dm: the users the handler has sent a plain direct message
\* (chat_postMessage(channel=<user id>, text=...)), beside its answer to the
\* caller and its announcement in the channel
Report(op, res, user, car, n) ==
    [op |-> op, res |-> res, user |-> user, car |-> car, n |-> n, dm |-> {}]
Notified(report, users) == [report EXCEPT !.dm = users]

\* An open transaction of a handler: what it has read and the writes it has
\* made that are not committed.  deactivated: the trips its UPDATE ... SET
\* active = FALSE has changed, whose rows it keeps locked until it ends.
Txn(op, user, ch, trip, car, old, deactivated) ==
    [op |-> op, user |-> user, ch |-> ch, trip |-> trip, car |-> car, old |-> old,
     deactivated |-> deactivated]
CanBegin == Cardinality(inflight) < MaxInflight
\* rows of trips another transaction has locked: a writer of one waits
Locked == UNION {r.deactivated : r \in inflight}

\* SELECT ... FROM trips WHERE channel_id=%s AND active=TRUE
ActiveTrips(ch) == {t \in trips : t.channel_id = ch /\ t.active}

\* SELECT ... FROM cars WHERE id=%s
CarsById(id) == {c \in cars : c.id = id}

\* an ownership lookup that never finds a row
CarsOwnedByNobody(ch, trip, user) == {}

\* SELECT ... FROM cars WHERE channel_id=%s AND trip=%s AND created_by=%s
CarsOwned(ch, trip, user) ==
    {c \in cars : c.channel_id = ch /\ c.trip = trip /\ c.created_by = user}

\* a membership lookup that never finds a row
CarsOfNobody(user, ch, trip) == {}

\* car_members cm JOIN cars c ON cm.car_id = c.id
\*   WHERE cm.user_id=%s AND c.channel_id=%s AND c.trip=%s
CarsOfMember(user, ch, trip) ==
    {c \in cars : /\ <<c.id, user>> \in car_members
                  /\ c.channel_id = ch /\ c.trip = trip}

\* join_requests jr JOIN cars c ON jr.car_id = c.id
\*   WHERE jr.user_id=%s AND c.channel_id=%s AND c.trip=%s
CarsRequested(user, ch, trip) ==
    {c \in cars : /\ <<c.id, user>> \in join_requests
                  /\ c.channel_id = ch /\ c.trip = trip}

\* SELECT COUNT(*) FROM car_members WHERE car_id=%s
MemberCount(id) == Cardinality({m \in car_members : m[1] = id})

\* a deletion of cars that cascades to no membership
MembersKept(ids) == car_members

\* car_members.car_id and join_requests.car_id REFERENCES cars(id)
\* ON DELETE CASCADE: the rows left once the cars `ids` are deleted
MembersWithoutCars(ids) == {m \in car_members : m[1] \notin ids}

\* a deletion of cars that drops the requests of every car
RequestsOfNoCar(ids) == {}

RequestsWithoutCars(ids) == {r \in join_requests : r[1] \notin ids}

\* an allocator that never reuses an id
next_sequential_car_id(trip, ch) ==
    LET existing_ids == {c.id : c \in {k \in cars : k.trip = trip /\ k.channel_id = ch}}
    IN IF existing_ids = {} THEN 1 ELSE Max(existing_ids) + 1

\* get_next_available_car_id: the first gap in the ids of the scope
get_next_available_car_id(trip, ch) ==
    LET existing_ids == {c.id : c \in {k \in cars : k.trip = trip /\ k.channel_id = ch}}
    IN IF existing_ids = {} THEN 1
       ELSE LET gaps == {i \in 1 .. Max(existing_ids) : i \notin existing_ids}
            IN IF gaps # {} THEN Min(gaps) ELSE Max(existing_ids) + 1

\* SELECT id ... ORDER BY id: the ids as an ascending list
RECURSIVE OrderById(_)
OrderById(S) == IF S = {} THEN <<>> ELSE <<Min(S)>> \o OrderById(S \ {Min(S)})

\* the loop of _next_id_for_team from position i of the list, with nxt so far
RECURSIVE next_id_scan(_, _, _)
next_id_scan(used, i, nxt) ==
    IF i > Len(used) THEN nxt
    ELSE IF used[i] = nxt THEN next_id_scan(used, i + 1, nxt + 1)
    ELSE IF used[i] > nxt THEN nxt
    ELSE next_id_scan(used, i + 1, nxt)

\* _next_id_for_team of the sqlite store, whose cars carry a team_id where the
\* other store's carry (trip, channel_id): the rows of one channel stand for
\* the rows of one team
next_id_for_team(team_id) ==
    next_id_scan(OrderById({c.id : c \in {k \in cars : k.channel_id = team_id}}), 1, 1)

\* the allocators applied to a scope, the answer reported
AllocateCarId(trip, ch) ==
    /\ last' = Report("next_id", "Allocated", NoUser, NoCar,
                      get_next_available_car_id(trip, ch))
    /\ UNCHANGED <<trips, cars, car_members, join_requests, messages, inflight>>

NextIdForTeam(team_id) ==
    /\ last' = Report("next_id_team", "Allocated", NoUser, NoCar,
                      next_id_for_team(team_id))
    /\ UNCHANGED <<trips, cars, car_members, join_requests, messages, inflight>>

\* ------------------------------------------------------------------ /car
\* INSERT INTO cars fails on a used id (PRIMARY KEY) or on a second car of the
\* same creator in the scope (UNIQUE(trip, channel_id, created_by))
cmd_car(user, ch, seats) ==
    /\ UNCHANGED <<inflight, trips, messages>>
    /\ IF ActiveTrips(ch) = {}
       THEN /\ UNCHANGED <<cars, car_members, join_requests>>
            /\ last' = Report("car", "NoActiveTrip", user, NoCar, 0)
       ELSE \E t \in ActiveTrips(ch) :
            LET trip == t.name
                car_id == get_next_available_car_id(trip, ch)
            IN IF CarsById(car_id) # {} \/ CarsOwned(ch, trip, user) # {}
               THEN /\ UNCHANGED <<cars, car_members, join_requests>>
                    /\ last' = Report("car", "AlreadyCreated", user, NoCar, 0)
               ELSE /\ Cardinality(cars) < MaxCars
                    /\ cars' = cars \cup {[id |-> car_id, trip |-> trip,
                                           channel_id |-> ch, seats |-> seats,
                                           created_by |-> user]}
                    /\ car_members' = car_members \cup {<<car_id, user>>}
                    /\ UNCHANGED join_requests
                    /\ last' = Report("car", "Created", user, car_id, 0)

\* ------------------------------------------------------------------ /in
cmd_in(user, ch, target_car_owner) ==
    /\ UNCHANGED <<inflight, trips, cars, car_members>>
    /\ IF target_car_owner = user
       THEN /\ UNCHANGED <<join_requests, messages>>
            /\ last' = Report("in", "OwnCar", user, NoCar, 0)
       ELSE IF ActiveTrips(ch) = {}
       THEN /\ UNCHANGED <<join_requests, messages>>
            /\ last' = Report("in", "NoActiveTrip", user, NoCar, 0)
       ELSE \E t \in ActiveTrips(ch) :
            LET trip == t.name IN
            IF CarsOwned(ch, trip, user) # {}
            THEN /\ UNCHANGED <<join_requests, messages>>
                 /\ last' = Report("in", "AlreadyOwnsCar", user, NoCar, 0)
            ELSE IF CarsRequested(user, ch, trip) # {}
            THEN /\ UNCHANGED <<join_requests, messages>>
                 /\ last' = Report("in", "DuplicateRequest", user, NoCar, 0)
            ELSE IF CarsOwned(ch, trip, target_car_owner) = {}
            THEN /\ UNCHANGED <<join_requests, messages>>
                 /\ last' = Report("in", "NoCar", user, NoCar, 0)
            ELSE \E car \in CarsOwned(ch, trip, target_car_owner) :
                 IF CarsOfMember(user, ch, trip) # {}
                 THEN \* already in a car: ask before creating the request
                      /\ CanSend
                      /\ messages' = Post(Msg("switch", car.id, user, user, 0))
                      /\ UNCHANGED join_requests
                      /\ last' = Report("in", "SwitchPrompt", user, car.id, 0)
                 ELSE IF <<car.id, user>> \in join_requests
                 THEN /\ UNCHANGED <<join_requests, messages>>
                      /\ last' = Report("in", "AlreadyRequested", user, car.id, 0)
                 ELSE /\ CanSend
                      /\ join_requests' = join_requests \cup {<<car.id, user>>}
                      /\ messages' = Post(Msg("approve", car.id, user, target_car_owner, 0))
                      /\ last' = Report("in", "Requested", user, car.id, 0)

\* ------------------------------------------------------------------ /trip
\* UPDATE trips SET channel_id=%s, active=TRUE WHERE name=%s, or the INSERT
\* of a new active trip when no row has the name
Activated(rows, trip, ch, user) ==
    IF \E t \in rows : t.name = trip
    THEN {IF t.name = trip THEN [t EXCEPT !.channel_id = ch, !.active = TRUE] ELSE t
            : t \in rows}
    ELSE rows \cup {[name |-> trip, channel_id |-> ch, created_by |-> user,
                     active |-> TRUE]}

\* UPDATE trips SET active = FALSE WHERE channel_id=%s AND active=TRUE
Deactivated(rows, ch) ==
    {IF t.channel_id = ch /\ t.active THEN [t EXCEPT !.active = FALSE] ELSE t
       : t \in rows}

\* a name lookup that finds no row of another channel
NameHeldNowhere(trip, ch) == {}

\* SELECT channel_id, created_by FROM trips WHERE name=%s, when the row is of
\* another channel
NameHeldElsewhere(trip, ch) == {t \in trips : t.name = trip /\ t.channel_id # ch}

\* channel_active: what is_channel_active answers for the channel that holds
\* the name; creator_present: whether the active trip's creator is among
\* get_channel_members(channel_id)
cmd_trip(user, ch, trip, channel_active, creator_present) ==
    /\ UNCHANGED <<inflight, messages>>
    /\ LET elsewhere == NameHeldElsewhere(trip, ch) IN
       IF elsewhere # {} /\ channel_active
       THEN /\ UNCHANGED <<trips, cars, car_members, join_requests>>
            /\ last' = Report("trip", "NameTaken", user, NoCar, 0)
       ELSE
       LET \* the name is held by an unreachable channel: cascade delete
           stale == elsewhere # {}
           gone == IF stale THEN {c.id : c \in {k \in cars : k.trip = trip}} ELSE {}
           trips1 == IF stale THEN {t \in trips : t.name # trip} ELSE trips
           active1 == {t \in trips1 : t.channel_id = ch /\ t.active}
       IN /\ stale => trip \notin Locked
          /\ cars' = {c \in cars : c.id \notin gone}
          /\ car_members' = MembersWithoutCars(gone)
          /\ join_requests' = RequestsWithoutCars(gone)
          /\ IF active1 # {}
             THEN \E cur \in active1 :
                  IF cur.name = trip
                  THEN /\ trips' = trips1
                       /\ last' = Report("trip", "AlreadyActive", user, NoCar, 0)
                  ELSE IF cur.created_by # user /\ creator_present
                  THEN /\ trips' = trips1
                       /\ last' = Report("trip", "OnlyCreator", user, NoCar, 0)
                  ELSE /\ ({t.name : t \in active1} \cup {trip}) \cap Locked = {}
                       /\ trips' = Activated(Deactivated(trips1, ch), trip, ch, user)
                       /\ last' = Report("trip", "Switched", user, NoCar, 0)
             ELSE /\ trip \notin Locked
                  /\ trips' = Activated(trips1, trip, ch, user)
                  /\ last' = Report("trip", "Activated", user, NoCar, 0)

\* /trip stopped before its INSERT: the name is in no row, the checks have
\* passed, and the active trips of the channel are deactivated in the open
\* transaction.
cmd_trip_begin(user, ch, trip, creator_present) ==
    LET active1 == ActiveTrips(ch) IN
    /\ CanBegin
    /\ \A t \in trips : t.name # trip
    /\ \A cur \in active1 : cur.created_by = user \/ ~creator_present
    /\ {t.name : t \in active1} \cap Locked = {}
    /\ inflight' = inflight \cup
           {Txn("trip", user, ch, trip, NoCar, NoCar, {t.name : t \in active1})}
    /\ last' = Report("trip", "Inserting", user, NoCar, 0)
    /\ UNCHANGED <<trips, cars, car_members, join_requests, messages>>

\* The INSERT of that /trip and what follows it.  unique_index: whether the
\* database has the index trips_active_channel_unique.  A name that is now in
\* a row, or with the index a second active trip of the channel, raises
\* UniqueViolation: the handler rolls back and activates the row of the name.
cmd_trip_insert(r, unique_index) ==
    LET deactivated == {IF t.name \in r.deactivated THEN [t EXCEPT !.active = FALSE]
                        ELSE t : t \in trips}
        moved == Activated(trips, r.trip, r.ch, r.user)
        others(rows) == {t \in rows : t.channel_id = r.ch /\ t.active /\ t.name # r.trip}
    IN
    /\ r.op = "trip"
    /\ inflight' = inflight \ {r}
    /\ UNCHANGED <<cars, car_members, join_requests, messages>>
    /\ IF (\A t \in trips : t.name # r.trip) /\ ~(unique_index /\ others(deactivated) # {})
       THEN /\ trips' = Activated(deactivated, r.trip, r.ch, r.user)
            /\ last' = Report("trip", "Created", r.user, NoCar, 0)
       ELSE IF \E t \in trips : t.name = r.trip /\ t.name \in Locked \ r.deactivated
       THEN \* the row of the name is locked by another transaction
            FALSE
       ELSE IF unique_index /\ (\E t \in trips : t.name = r.trip) /\ others(trips) # {}
       THEN \* the UPDATE raises too: nothing is committed
            /\ UNCHANGED trips
            /\ last' = Report("trip", "Error", r.user, NoCar, 0)
       ELSE /\ trips' = (IF \E t \in trips : t.name = r.trip THEN moved ELSE trips)
            /\ last' = Report("trip", "Recovered", r.user, NoCar, 0)

\* a creator test that lets every user through
CreatedByNoOther(row, user) == FALSE

\* if trip_creator != user: the deletion is refused
CreatedByOther(row, user) == \E t \in row : t.created_by # user

\* /deletetrip TripName: the lookup is by name alone, in any channel; the
\* prompt is an ephemeral answer whose buttons carry the trip name, and
\* car_count is reported in it
cmd_deletetrip(user, ch, trip_name) ==
    LET row == {t \in trips : t.name = trip_name}
        car_count == Cardinality({c \in cars : c.trip = trip_name})
    IN
    /\ UNCHANGED <<trips, cars, car_members, join_requests, messages, inflight>>
    /\ IF row = {}
       THEN last' = Report("deletetrip", "NoTrip", user, NoCar, 0)
       ELSE IF CreatedByOther(row, user)
       THEN last' = Report("deletetrip", "NotCreator", user, NoCar, 0)
       ELSE last' = Report("deletetrip", "Prompt", user, NoCar, car_count)

\* confirm_delete_trip with the trip name of the button: the handler checks
\* again that the trip exists and that the user created it, and reports
\* car_count
handle_confirm_delete_trip(user_id, trip_name) ==
    LET row == {t \in trips : t.name = trip_name}
        gone == {c.id : c \in {k \in cars : k.trip = trip_name}}
    IN
    /\ UNCHANGED <<inflight, messages>>
    /\ IF row = {}
       THEN /\ UNCHANGED <<trips, cars, car_members, join_requests>>
            /\ last' = Report("delete_trip", "NoTrip", user_id, NoCar, 0)
       ELSE IF CreatedByOther(row, user_id)
       THEN /\ UNCHANGED <<trips, cars, car_members, join_requests>>
            /\ last' = Report("delete_trip", "NotCreator", user_id, NoCar, 0)
       ELSE /\ trip_name \notin Locked
            /\ trips' = trips \ row
            /\ cars' = {c \in cars : c.id \notin gone}
            /\ car_members' = MembersWithoutCars(gone)
            /\ join_requests' = RequestsWithoutCars(gone)
            /\ last' = Report("delete_trip", "Deleted", user_id, NoCar, Cardinality(gone))

\* ------------------------------------------------------------------ approve_request
\* a capacity test that lets one member more in
CarFullStrict(current_members, seats) == current_members > seats

\* if current_members >= seats: the request is refused
CarFull(current_members, seats) == current_members >= seats

\* The handler reads the car id and the user from the button value and the
\* channel from the message's own channel: the owner's direct-message channel.
act_approve(m) ==
    LET car_id == m.car
        user_to_add == m.user
        channel_id == DM(m.to)
    IN
    /\ UNCHANGED <<inflight, trips, cars>>
    /\ messages' = Remove(m)
    /\ IF CarsById(car_id) = {}
       THEN /\ UNCHANGED <<car_members, join_requests>>
            /\ last' = Report("approve", "CarGone", user_to_add, car_id, 0)
       ELSE \E car \in CarsById(car_id) :
            LET existing == CarsOfMember(user_to_add, channel_id, car.trip) IN
            \E old \in (IF existing = {} THEN {NoCar} ELSE {c.id : c \in existing}) :
            LET \* DELETE FROM car_members WHERE car_id=old AND user_id=user
                members1 == car_members \ {<<old, user_to_add>>}
                current_members == Cardinality({x \in members1 : x[1] = car_id})
                \* the owner of the old car is told that the user left
                existing_car_owner == {c.created_by : c \in {k \in existing : k.id = old}}
            IN
            IF <<car_id, user_to_add>> \in members1
            THEN /\ car_members' = members1
                 /\ join_requests' = join_requests \ {<<car_id, user_to_add>>}
                 /\ last' = Notified(Report("approve", "AlreadyInCar", user_to_add, car_id, old),
                                     existing_car_owner)
            ELSE IF CarFull(current_members, car.seats)
            THEN /\ car_members' = members1
                 /\ join_requests' = join_requests \ {<<car_id, user_to_add>>}
                 /\ last' = Notified(Report("approve", "CarFull", user_to_add, car_id, old),
                                     existing_car_owner \cup {user_to_add})
            ELSE /\ car_members' = members1 \cup {<<car_id, user_to_add>>}
                 /\ join_requests' = join_requests \ {<<car_id, user_to_add>>}
                 /\ last' = Notified(Report("approve", "Approved", user_to_add, car_id, old),
                                     existing_car_owner \cup {user_to_add})

\* approve_request stopped after its reads: the car exists, the user is not in
\* it and it is not full; the DELETE of the old membership is in the open
\* transaction.
act_approve_read(m) ==
    LET car_id == m.car
        user_to_add == m.user
        channel_id == DM(m.to)
    IN
    /\ CanBegin
    /\ UNCHANGED <<trips, cars, car_members, join_requests>>
    /\ messages' = Remove(m)
    /\ \E car \in CarsById(car_id) :
       LET existing == CarsOfMember(user_to_add, channel_id, car.trip) IN
       \E old \in (IF existing = {} THEN {NoCar} ELSE {c.id : c \in existing}) :
       LET members1 == car_members \ {<<old, user_to_add>>}
           current_members == Cardinality({x \in members1 : x[1] = car_id})
       IN /\ <<car_id, user_to_add>> \notin members1
          /\ ~CarFull(current_members, car.seats)
          /\ inflight' = inflight \cup
                 {Txn("approve", user_to_add, channel_id, car.trip, car_id, old, {})}
          /\ last' = Notified(Report("approve", "Inserting", user_to_add, car_id, old),
                              {c.created_by : c \in {k \in existing : k.id = old}})

\* The INSERT INTO car_members of that approval, the DELETE of the request and
\* the commit.  An INSERT that fails (the row exists, or the car is gone)
\* leaves the handler with an exception and the transaction rolled back.
act_approve_write(r) ==
    /\ r.op = "approve"
    /\ inflight' = inflight \ {r}
    /\ UNCHANGED <<trips, cars, messages>>
    /\ IF CarsById(r.car) = {} \/ <<r.car, r.user>> \in car_members
       THEN /\ UNCHANGED <<car_members, join_requests>>
            /\ last' = Report("approve", "Error", r.user, r.car, r.old)
       ELSE /\ car_members' = (car_members \ {<<r.old, r.user>>}) \cup {<<r.car, r.user>>}
            /\ join_requests' = join_requests \ {<<r.car, r.user>>}
            /\ last' = Notified(Report("approve", "Approved", r.user, r.car, r.old), {r.user})

\* ------------------------------------------------------------------ deny_request
act_deny(m) ==
    /\ UNCHANGED <<inflight, trips, cars, car_members>>
    /\ join_requests' = join_requests \ {<<m.car, m.user>>}
    /\ messages' = Remove(m)
    /\ last' = Notified(Report("deny", "Denied", m.user, m.car, 0), {m.user})

\* ------------------------------------------------------------------ confirm_car_switch
\* The approve message that replaces the confirmation is posted to the owner
\* of the car as it is now.
act_confirm_car_switch(m) ==
    /\ UNCHANGED <<inflight, trips, cars, car_members>>
    /\ IF CarsById(m.car) = {}
       THEN /\ UNCHANGED join_requests
            /\ messages' = Remove(m)
            /\ last' = Report("confirm_switch", "CarGone", m.user, m.car, 0)
       ELSE \E car \in CarsById(m.car) :
            IF <<m.car, m.user>> \in join_requests
            THEN /\ UNCHANGED join_requests
                 /\ messages' = Remove(m)
                 /\ last' = Report("confirm_switch", "AlreadyPending", m.user, m.car, 0)
            ELSE /\ join_requests' = join_requests \cup {<<m.car, m.user>>}
                 /\ messages' = (Remove(m) \cup
                       {<<Msg("approve", m.car, m.user, car.created_by, 0),
                          Cardinality(Copies(Msg("approve", m.car, m.user, car.created_by, 0))) + 1>>})
                 /\ last' = Report("confirm_switch", "Requested", m.user, m.car, 0)

\* ------------------------------------------------------------------ cancel_car_switch
act_cancel_car_switch(m) ==
    /\ UNCHANGED <<inflight, trips, cars, car_members, join_requests>>
    /\ messages' = Remove(m)
    /\ last' = Report("cancel_switch", "Cancelled", m.user, m.car, 0)

\* ------------------------------------------------------------------ /cancel
cmd_cancel(user, ch) ==
    /\ UNCHANGED <<inflight, trips, cars, car_members, messages>>
    /\ IF ActiveTrips(ch) = {}
       THEN /\ UNCHANGED join_requests
            /\ last' = Report("cancel", "NoActiveTrip", user, NoCar, 0)
       ELSE \E t \in ActiveTrips(ch) :
            IF CarsRequested(user, ch, t.name) = {}
            THEN /\ UNCHANGED join_requests
                 /\ last' = Report("cancel", "NoPendingRequest", user, NoCar, 0)
            ELSE \E car \in CarsRequested(user, ch, t.name) :
                 /\ join_requests' = join_requests \ {<<car.id, user>>}
                 /\ last' = Report("cancel", "Cancelled", user, car.id, 0)

\* ------------------------------------------------------------------ /out
\* DELETE FROM cars cascades to the car's members and join requests
cmd_out(user, ch) ==
    /\ UNCHANGED <<inflight, trips, messages>>
    /\ IF ActiveTrips(ch) = {}
       THEN /\ UNCHANGED <<cars, car_members, join_requests>>
            /\ last' = Report("out", "NoActiveTrip", user, NoCar, 0)
       ELSE \E t \in ActiveTrips(ch) :
            IF CarsOfMember(user, ch, t.name) = {}
            THEN /\ UNCHANGED <<cars, car_members, join_requests>>
                 /\ last' = Report("out", "NotInCar", user, NoCar, 0)
            ELSE \E car \in CarsOfMember(user, ch, t.name) :
                 IF user = car.created_by
                 THEN /\ cars' = cars \ {car}
                      /\ car_members' = MembersWithoutCars({car.id})
                      /\ join_requests' = RequestsWithoutCars({car.id})
                      /\ last' = Report("out", "Deleted", user, car.id, 0)
                 ELSE /\ car_members' = car_members \ {<<car.id, user>>}
                      /\ UNCHANGED <<cars, join_requests>>
                      /\ last' = Report("out", "Left", user, car.id, 0)

\* ------------------------------------------------------------------ /boot
cmd_boot(user, ch, target_user) ==
    /\ UNCHANGED <<inflight, trips, cars, join_requests, messages>>
    /\ IF target_user = user
       THEN /\ UNCHANGED car_members
            /\ last' = Report("boot", "Self", user, NoCar, 0)
       ELSE IF ActiveTrips(ch) = {}
       THEN /\ UNCHANGED car_members
            /\ last' = Report("boot", "NoActiveTrip", user, NoCar, 0)
       ELSE \E t \in ActiveTrips(ch) :
            IF CarsOwned(ch, t.name, user) = {}
            THEN /\ UNCHANGED car_members
                 /\ last' = Report("boot", "NoCar", user, NoCar, 0)
            ELSE \E car \in CarsOwned(ch, t.name, user) :
                 IF <<car.id, target_user>> \notin car_members
                 THEN /\ UNCHANGED car_members
                      /\ last' = Report("boot", "NotInCar", target_user, car.id, 0)
                 ELSE /\ car_members' = car_members \ {<<car.id, target_user>>}
                      /\ last' = Notified(Report("boot", "Booted", target_user, car.id, 0),
                                          {target_user})

\* ------------------------------------------------------------------ adding members
\* The targets that pass both per-target checks: not in this car, and in no
\* car of (trip, channel_id)
users_to_add(car_id, trip, channel_id, target_users) ==
    {u \in target_users : /\ <<car_id, u>> \notin car_members
                          /\ CarsOfMember(u, channel_id, trip) = {}}

\* a batch test that lets every batch through
NeverTooMany(targets, available_seats) == FALSE

\* if len(target_users) > available_seats: the whole batch is refused
TooManyUsers(targets, available_seats) == targets > available_seats

\* /add @user ...: the mentions without duplicates (a set)
cmd_add(user, ch, mentions) ==
    LET target_users == mentions \ {user} IN
    /\ UNCHANGED <<inflight, trips, cars, join_requests, messages>>
    /\ IF target_users = {}
       THEN /\ UNCHANGED car_members
            /\ last' = Report("add", "NoValidUsers", user, NoCar, 0)
       ELSE IF ActiveTrips(ch) = {}
       THEN /\ UNCHANGED car_members
            /\ last' = Report("add", "NoActiveTrip", user, NoCar, 0)
       ELSE \E t \in ActiveTrips(ch) :
            IF CarsOwned(ch, t.name, user) = {}
            THEN /\ UNCHANGED car_members
                 /\ last' = Report("add", "NoCar", user, NoCar, 0)
            ELSE \E car \in CarsOwned(ch, t.name, user) :
                 LET available_seats == car.seats - MemberCount(car.id)
                     adding == users_to_add(car.id, t.name, ch, target_users)
                 IN IF TooManyUsers(Cardinality(target_users), available_seats)
                    THEN /\ UNCHANGED car_members
                         /\ last' = Report("add", "InsufficientSeats", user, car.id,
                                           Cardinality(target_users))
                    ELSE IF adding = {}
                    THEN /\ UNCHANGED car_members
                         /\ last' = Report("add", "NoUsersAdded", user, car.id, 0)
                    ELSE /\ car_members' = car_members \cup {<<car.id, u>> : u \in adding}
                         /\ last' = Notified(Report("add", "Added", user, car.id,
                                                    Cardinality(adding)), adding)

\* add_users_to_car(car_id, channel_id, user_id, target_user_ids, client) with
\* a client given
add_users_to_car(car_id, channel_id, user_id, target_user_ids) ==
    LET car_info == {c \in cars : c.id = car_id /\ c.channel_id = channel_id} IN
    /\ UNCHANGED <<inflight, trips, cars, join_requests, messages>>
    /\ IF car_info = {}
       THEN /\ UNCHANGED car_members
            /\ last' = Report("add_users", "CarNotFound", user_id, car_id, 0)
       ELSE \E car \in car_info :
            LET adding == users_to_add(car_id, car.trip, channel_id, target_user_ids) IN
            IF user_id # car.created_by
            THEN /\ UNCHANGED car_members
                 /\ last' = Report("add_users", "NotOwner", user_id, car_id, 0)
            ELSE IF adding = {}
            THEN /\ UNCHANGED car_members
                 /\ last' = Report("add_users", "NoUsersAdded", user_id, car_id, 0)
            ELSE /\ car_members' = car_members \cup {<<car_id, u>> : u \in adding}
                 /\ last' = Notified(Report("add_users", "Added", user_id, car_id,
                                            Cardinality(adding)), adding)

\* boot_users_from_car(car_id, channel_id, user_id, target_user_ids, client)
\* with a client given
boot_users_from_car(car_id, channel_id, user_id, target_user_ids) ==
    LET car_info == {c \in cars : c.id = car_id /\ c.channel_id = channel_id} IN
    /\ UNCHANGED <<inflight, trips, cars, join_requests, messages>>
    /\ IF car_info = {}
       THEN /\ UNCHANGED car_members
            /\ last' = Report("boot_users", "CarNotFound", user_id, car_id, 0)
       ELSE \E car \in car_info :
            LET users_to_boot == {u \in target_user_ids :
                                     u # car.created_by /\ <<car_id, u>> \in car_members}
            IN
            IF user_id # car.created_by
            THEN /\ UNCHANGED car_members
                 /\ last' = Report("boot_users", "NotOwner", user_id, car_id, 0)
            ELSE IF users_to_boot = {}
            THEN /\ UNCHANGED car_members
                 /\ last' = Report("boot_users", "NoUsersRemoved", user_id, car_id, 0)
            ELSE /\ car_members' = car_members \ {<<car_id, u>> : u \in users_to_boot}
                 /\ last' = Notified(Report("boot_users", "Removed", user_id, car_id,
                                            Cardinality(users_to_boot)), users_to_boot)

\* View submission confirm_add_<car_id>_<member_ids>.  One failed INSERT (no
\* such car, or a row that exists) aborts the transaction, so the later
\* INSERTs fail and the commit keeps nothing.
handle_confirm_add(user_id, car_id, member_ids) ==
    /\ UNCHANGED <<inflight, trips, cars, join_requests, messages>>
    /\ IF CarsById(car_id) = {} \/ \E u \in member_ids : <<car_id, u>> \in car_members
       THEN /\ UNCHANGED car_members
            /\ last' = Report("confirm_add", "Failed", user_id, car_id, 0)
       ELSE /\ car_members' = car_members \cup {<<car_id, u>> : u \in member_ids}
            /\ last' = Report("confirm_add", "Added", user_id, car_id,
                              Cardinality(member_ids))

\* View submission confirm_boot_<car_id>_<member_ids>
handle_confirm_boot(user_id, car_id, member_ids) ==
    LET removed == {<<car_id, u>> : u \in member_ids} \cap car_members IN
    /\ UNCHANGED <<inflight, trips, cars, join_requests, messages>>
    /\ car_members' = car_members \ removed
    /\ last' = Report("confirm_boot",
                      IF removed = {} THEN "Failed" ELSE "Removed",
                      user_id, car_id, Cardinality(removed))

\* ------------------------------------------------------------------ /update
\* a seat test that also refuses a count equal to the membership
AtOrBelowCurrentMembership(new_seats, current_members) == new_seats <= current_members

\* if new_seats < current_members: the reduction is refused
BelowCurrentMembership(new_seats, current_members) == new_seats < current_members

\* new_seats < 1 is refused before the database is read
cmd_update(user, ch, new_seats) ==
    /\ UNCHANGED <<inflight, trips, cars, car_members, join_requests>>
    /\ IF new_seats < 1
       THEN /\ UNCHANGED messages
            /\ last' = Report("update", "AtLeastOne", user, NoCar, new_seats)
       ELSE IF ActiveTrips(ch) = {}
       THEN /\ UNCHANGED messages
            /\ last' = Report("update", "NoActiveTrip", user, NoCar, new_seats)
       ELSE \E t \in ActiveTrips(ch) :
            IF CarsOwned(ch, t.name, user) = {}
            THEN /\ UNCHANGED messages
                 /\ last' = Report("update", "NoCar", user, NoCar, new_seats)
            ELSE \E car \in CarsOwned(ch, t.name, user) :
                 LET current_members == MemberCount(car.id) IN
                 IF BelowCurrentMembership(new_seats, current_members)
                 THEN /\ UNCHANGED messages
                      /\ last' = Report("update", "BelowCurrentMembership", user,
                                        car.id, new_seats)
                 ELSE IF new_seats = car.seats
                 THEN /\ UNCHANGED messages
                      /\ last' = Report("update", "NoChange", user, car.id, new_seats)
                 ELSE /\ CanSend
                      /\ messages' = Post(Msg("update", car.id, user, user, new_seats))
                      /\ last' = Report("update", "Prompt", user, car.id, new_seats)

\* confirm_update_car: pressed by the user the prompt was shown to
handle_confirm_update_car(m) ==
    LET car_id == m.car
        new_seats == m.n
        user == m.to
    IN
    /\ UNCHANGED <<inflight, trips, car_members, join_requests>>
    /\ messages' = Remove(m)
    /\ IF \A c \in CarsById(car_id) : c.created_by # user
       THEN /\ UNCHANGED cars
            /\ last' = Report("confirm_update", "NotYours", user, car_id, new_seats)
       ELSE /\ cars' = {IF c.id = car_id THEN [c EXCEPT !.seats = new_seats] ELSE c
                          : c \in cars}
            /\ last' = Report("confirm_update", "Updated", user, car_id, new_seats)

\* cancel_update_car
handle_cancel_update_car(m) ==
    /\ UNCHANGED <<inflight, trips, cars, car_members, join_requests>>
    /\ messages' = Remove(m)
    /\ last' = Report("cancel_update", "Cancelled", m.to, m.car, 0)

\* ------------------------------------------------------------------ /delete
\* the prompt carries the car id in its button value
cmd_delete(user, ch) ==
    /\ UNCHANGED <<inflight, trips, cars, car_members, join_requests>>
    /\ IF ActiveTrips(ch) = {}
       THEN /\ UNCHANGED messages
            /\ last' = Report("delete", "NoActiveTrip", user, NoCar, 0)
       ELSE \E t \in ActiveTrips(ch) :
            IF CarsOwned(ch, t.name, user) = {}
            THEN /\ UNCHANGED messages
                 /\ last' = Report("delete", "NoCar", user, NoCar, 0)
            ELSE \E car \in CarsOwned(ch, t.name, user) :
                 /\ CanSend
                 /\ messages' = Post(Msg("delete", car.id, user, user, 0))
                 /\ last' = Report("delete", "Prompt", user, car.id, MemberCount(car.id))

\* confirm_delete_car: pressed by the user the prompt was shown to.  DELETE
\* FROM cars cascades; the members to notify are read after the commit.
handle_confirm_delete_car(m) ==
    LET car_id == m.car
        user == m.to
    IN
    /\ UNCHANGED <<inflight, trips>>
    /\ messages' = Remove(m)
    /\ IF \A c \in CarsById(car_id) : c.created_by # user
       THEN /\ UNCHANGED <<cars, car_members, join_requests>>
            /\ last' = Report("confirm_delete", "NotYours", user, car_id, 0)
       ELSE LET \* SELECT user_id FROM car_members WHERE car_id=%s, after the commit
                members == {x[2] : x \in {y \in MembersWithoutCars({car_id}) : y[1] = car_id}}
            IN
            /\ cars' = {c \in cars : c.id # car_id}
            /\ car_members' = MembersWithoutCars({car_id})
            /\ join_requests' = RequestsWithoutCars({car_id})
            /\ last' = Notified(Report("confirm_delete", "Deleted", user, car_id, 0),
                                members \ {user})

\* cancel_delete_car
handle_cancel_delete_car(m) ==
    /\ UNCHANGED <<inflight, trips, cars, car_members, join_requests>>
    /\ messages' = Remove(m)
    /\ last' = Report("cancel_delete", "Cancelled", m.to, m.car, 0)

\* ------------------------------------------------------------------ member_left_channel
\* remove_user_from_channel_cars: every car of the channel the user is in is
\* deleted when the user owns it, and left otherwise
handle_member_left_channel(user_id, channel_id) ==
    LET user_cars == {c \in cars : <<c.id, user_id>> \in car_members
                                   /\ c.channel_id = channel_id}
        owned == {c.id : c \in {k \in user_cars : k.created_by = user_id}}
    IN
    /\ UNCHANGED <<inflight, trips, messages>>
    /\ cars' = {c \in cars : c.id \notin owned}
    /\ car_members' = {x \in MembersWithoutCars(owned) :
                          ~(x[2] = user_id /\ x[1] \in {c.id : c \in user_cars})}
    /\ join_requests' = RequestsWithoutCars(owned)
    /\ last' = Notified(Report("member_left", IF user_cars = {} THEN "NoCars" ELSE "Removed",
                               user_id, NoCar, Cardinality(user_cars)),
                        IF user_cars = {} THEN {} ELSE {user_id})

\* ------------------------------------------------------------------ middleware
\* what conversations_info reports of a channel: "P" is a public channel, "X"
\* a private one, and a direct-message channel is an im
ChannelKind(ch) == IF ch = "P" THEN "public" ELSE IF ch \in Channels THEN "private" ELSE "im"

\* a test that lets every channel through
AnyChannelAllowed(is_private, is_im, is_mpim) == TRUE

\* if is_private or is_im or is_mpim
ChannelAllowed(is_private, is_im, is_mpim) == is_private \/ is_im \/ is_mpim

\* restrict_to_private_channels: "next" when next() is called, "blocked" when
\* the middleware returns without calling it.  type: body["type"];
\* channel_id: body["channel_id"], NoUser when the body has none; api: the
\* outcome of conversations_info ("ok", "error" for an answer that is not ok,
\* "exception" for a call that raises)
restrict_to_private_channels(type, channel_id, api) ==
    IF type = "block_actions" THEN "next"
    ELSE IF channel_id # NoUser
    THEN IF api = "ok"
         THEN LET kind == ChannelKind(channel_id) IN
              IF ChannelAllowed(kind = "private", kind = "im", kind = "mpim")
              THEN "next" ELSE "blocked"
         ELSE "blocked"
    ELSE "next"

\* a request the middleware does not pass on: no listener runs
Blocked(user) ==
    /\ UNCHANGED <<trips, cars, car_members, join_requests, messages, inflight>>
    /\ last' = Report("middleware", "Blocked", user, NoCar, 0)

\* slash commands as the app receives them: the middleware, then the handler
SlashTrip(user, ch, trip, api) ==
    IF restrict_to_private_channels("slash_command", ch, api) = "next"
    THEN cmd_trip(user, ch, trip, TRUE, TRUE) ELSE Blocked(user)

SlashCar(user, ch, seats, api) ==
    IF restrict_to_private_channels("slash_command", ch, api) = "next"
    THEN cmd_car(user, ch, seats) ELSE Blocked(user)

SlashIn(user, ch, target_car_owner, api) ==
    IF restrict_to_private_channels("slash_command", ch, api) = "next"
    THEN Cardinality(messages) < MaxApprovals /\ cmd_in(user, ch, target_car_owner)
    ELSE Blocked(user)

SlashOut(user, ch, api) ==
    IF restrict_to_private_channels("slash_command", ch, api) = "next"
    THEN cmd_out(user, ch) ELSE Blocked(user)

\* a pressed button: body["type"] is "block_actions" and the body has no
\* top-level channel_id
ActionApprove(m, api) ==
    IF restrict_to_private_channels("block_actions", NoUser, api) = "next"
    THEN act_approve(m) ELSE Blocked(m.to)

Init ==
    /\ trips = {}
    /\ cars = {}
    /\ car_members = {}
    /\ join_requests = {}
    /\ messages = {}
    /\ inflight = {}
    /\ last = Report("init", "-", NoUser, NoCar, 0)

\* The join flow: trips, cars, requests and their buttons, leaving.
Next ==
    \/ \E u \in Users, ch \in Channels, t \in TripNames : cmd_trip(u, ch, t, TRUE, TRUE)
    \/ \E u \in Drivers, ch \in Channels, s \in 1 .. MaxSeats : cmd_car(u, ch, s)
    \/ \E u \in Riders, ch \in Channels, o \in Users : cmd_in(u, ch, o)
    \/ \E m \in Pending("approve") : act_approve(m)
    \/ \E m \in Pending("approve") : act_deny(m)
    \/ \E m \in Pending("switch") : act_confirm_car_switch(m)
    \/ \E m \in Pending("switch") : act_cancel_car_switch(m)
    \/ \E u \in Users, ch \in Channels : cmd_cancel(u, ch)
    \/ \E u \in Users, ch \in Channels : cmd_out(u, ch)

Spec == Init /\ [][Next]_vars

\* The owner's side: adding and removing members, by command and by view
\* submission.
NextAdd ==
    \/ \E u \in Users, ch \in Channels, t \in TripNames : cmd_trip(u, ch, t, TRUE, TRUE)
    \/ \E u \in Drivers, ch \in Channels, s \in 1 .. MaxSeats : cmd_car(u, ch, s)
    \/ \E u \in Users, ch \in Channels : cmd_out(u, ch)
    \/ \E u \in Users, ch \in Channels, t \in Users : cmd_boot(u, ch, t)
    \/ \E u \in Users, ch \in Channels, ms \in UserLists : cmd_add(u, ch, ms)
    \/ \E id \in CarIds, ch \in Channels, u \in Drivers, ms \in UserLists :
          add_users_to_car(id, ch, u, ms)
    \/ \E u \in Drivers, id \in CarIds, ms \in UserLists : handle_confirm_add(u, id, ms)
    \/ \E u \in Drivers, id \in CarIds, ms \in UserLists : handle_confirm_boot(u, id, ms)
    \/ \E id \in CarIds, ch \in Channels, u \in Drivers, ms \in UserLists :
          boot_users_from_car(id, ch, u, ms)

SpecAdd == Init /\ [][NextAdd]_vars

\* Batches: /add with lists of users, on cars that members leave, are removed
\* from, and are put into one at a time by the home-tab submission.
NextBatch ==
    \/ \E u \in Users, ch \in Channels, t \in TripNames : cmd_trip(u, ch, t, TRUE, TRUE)
    \/ \E u \in Drivers, ch \in Channels, s \in 1 .. MaxSeats : cmd_car(u, ch, s)
    \/ \E u \in Users, ch \in Channels : cmd_out(u, ch)
    \/ \E u \in Drivers, ch \in Channels, t \in Users : cmd_boot(u, ch, t)
    \/ \E u \in Users, ch \in Channels, ms \in UserLists : cmd_add(u, ch, ms)
    \/ \E u \in Drivers, id \in CarIds, x \in Users : handle_confirm_add(u, id, {x})

SpecBatch == Init /\ [][NextBatch]_vars

\* Seat counts: /update and its confirmation, with the commands that change
\* the member count in between.
NextSeats ==
    \/ \E u \in Users, ch \in Channels, t \in TripNames : cmd_trip(u, ch, t, TRUE, TRUE)
    \/ \E u \in Drivers, ch \in Channels, s \in 1 .. MaxSeats : cmd_car(u, ch, s)
    \/ \E u \in Users, ch \in Channels : cmd_out(u, ch)
    \/ \E u \in Drivers, ch \in Channels, x \in Users : cmd_add(u, ch, {x})
    \/ \E u \in Users, ch \in Channels, s \in SeatInputs : cmd_update(u, ch, s)
    \/ \E m \in Pending("update") : handle_confirm_update_car(m)
    \/ \E m \in Pending("update") : handle_cancel_update_car(m)

SpecSeats == Init /\ [][NextSeats]_vars

\* Two channels and two trip names, with one /trip that can stop before its
\* INSERT while other handlers run.
NextTrip ==
    \/ \E u \in TripUsers, ch \in TripChannels, t \in TripNames2, a, pr \in BOOLEAN :
          cmd_trip(u, ch, t, a, pr)
    \/ \E u \in TripUsers, ch \in TripChannels, t \in TripNames2, pr \in BOOLEAN :
          cmd_trip_begin(u, ch, t, pr)
    \/ \E r \in inflight, ix \in BOOLEAN : cmd_trip_insert(r, ix)
    \/ \E u \in TripUsers, t \in TripNames2 : handle_confirm_delete_trip(u, t)

SpecTrip == Init /\ [][NextTrip]_vars

\* Approvals of one car, with one approval that can stop between its reads
\* and its INSERT while other handlers run.
NextRace ==
    \/ \E u \in Users, ch \in Channels, t \in TripNames : cmd_trip(u, ch, t, TRUE, TRUE)
    \/ \E u \in Drivers, ch \in Channels, s \in 1 .. MaxSeats : cmd_car(u, ch, s)
    \/ \E u \in Riders, ch \in Channels, o \in Users : cmd_in(u, ch, o)
    \/ \E m \in Pending("approve") : act_approve(m)
    \/ \E m \in Pending("approve") : act_approve_read(m)
    \/ \E r \in inflight : act_approve_write(r)

SpecRace == Init /\ [][NextRace]_vars

\* Deletions: of a trip, of a car by its prompt, by its owner's /out and by
\* its owner leaving the channel, with the requests and approvals that fill
\* the cars.
NextDelete ==
    \/ \E u \in Users, ch \in Channels, t \in TripNames : cmd_trip(u, ch, t, TRUE, TRUE)
    \/ \E u \in Drivers, ch \in Channels, s \in 1 .. MaxSeats : cmd_car(u, ch, s)
    \/ \E u \in Riders, ch \in Channels, o \in Users : cmd_in(u, ch, o)
    \/ \E m \in Pending("approve") : act_approve(m)
    \/ \E u \in Drivers, ch \in Channels : cmd_delete(u, ch)
    \/ \E m \in Pending("delete") : handle_confirm_delete_car(m)
    \/ \E m \in Pending("delete") : handle_cancel_delete_car(m)
    \/ \E u \in Users, ch \in Channels : cmd_out(u, ch)
    \/ \E u \in Users, ch \in Channels : handle_member_left_channel(u, ch)
    \/ \E u \in Users, t \in TripNames : handle_confirm_delete_trip(u, t)

SpecDelete == Init /\ [][NextDelete]_vars

\* The id allocators over the cars of one scope: any set of ids up to MaxId
\* that creations and deletions leave behind, each car with its own creator.
InitIds ==
    /\ trips = {[name |-> "T1", channel_id |-> "X", created_by |-> "A", active |-> TRUE]}
    /\ \E S \in SUBSET (1 .. MaxId) : \E owner \in [S -> Users] :
          /\ \A i, j \in S : owner[i] = owner[j] => i = j
          /\ cars = {[id |-> i, trip |-> "T1", channel_id |-> "X", seats |-> 1,
                      created_by |-> owner[i]] : i \in S}
          /\ car_members = {<<i, owner[i]>> : i \in S}
    /\ join_requests = {}
    /\ messages = {}
    /\ inflight = {}
    /\ last = Report("init", "-", NoUser, NoCar, 0)

NextIds ==
    \/ \E t \in TripNames2, ch \in TripChannels : AllocateCarId(t, ch)
    \/ \E ch \in TripChannels : NextIdForTeam(ch)
    \/ \E u \in Users, ch \in Channels : cmd_out(u, ch)

SpecIds == InitIds /\ [][NextIds]_vars

\* Trip deletion: two trip names in one channel, cars and requests on the
\* active one, and /deletetrip and its confirmation by every user.
NextTripDelete ==
    \/ \E u \in TripUsers, ch \in Channels, t \in TripNames2 : cmd_trip(u, ch, t, TRUE, TRUE)
    \/ \E u \in Drivers, ch \in Channels, s \in 1 .. MaxSeats : cmd_car(u, ch, s)
    \/ \E u \in Riders, ch \in Channels, o \in Drivers : cmd_in(u, ch, o)
    \/ \E u \in Users, ch \in Channels, t \in TripNames2 : cmd_deletetrip(u, ch, t)
    \/ \E u \in Users, t \in TripNames2 : handle_confirm_delete_trip(u, t)

SpecTripDelete == Init /\ [][NextTripDelete]_vars

\* Seat counts as typed: /car and /update with every count of SeatInputs, and
\* the confirmation of the update.
NextCar ==
    \/ \E u \in Users, ch \in Channels, t \in TripNames : cmd_trip(u, ch, t, TRUE, TRUE)
    \/ \E u \in Drivers, ch \in Channels, s \in SeatInputs : cmd_car(u, ch, s)
    \/ \E u \in Drivers, ch \in Channels, s \in SeatInputs : cmd_update(u, ch, s)
    \/ \E m \in Pending("update") : handle_confirm_update_car(m)
    \/ \E m \in Pending("update") : handle_cancel_update_car(m)
    \/ \E u \in Drivers, ch \in Channels : cmd_out(u, ch)

SpecCar == Init /\ [][NextCar]_vars

\* The life of a join request: made, approved, denied, cancelled, and lost
\* with its car or its trip.
NextRequests ==
    \/ \E u \in Users, ch \in Channels, t \in TripNames : cmd_trip(u, ch, t, TRUE, TRUE)
    \/ \E u \in Drivers, ch \in Channels, s \in 1 .. MaxSeats : cmd_car(u, ch, s)
    \/ \E u \in Riders, ch \in Channels, o \in Drivers : cmd_in(u, ch, o)
    \/ \E m \in Pending("approve") : act_approve(m)
    \/ \E m \in Pending("approve") : act_deny(m)
    \/ \E m \in Pending("switch") : act_confirm_car_switch(m)
    \/ \E u \in Riders, ch \in Channels : cmd_cancel(u, ch)
    \/ \E u \in Drivers, ch \in Channels : cmd_out(u, ch)
    \/ \E u \in Drivers, ch \in Channels : handle_member_left_channel(u, ch)
    \/ \E u \in Users, t \in TripNames : handle_confirm_delete_trip(u, t)

SpecRequests == Init /\ [][NextRequests]_vars

\* Requests through the middleware: slash commands from a private channel, a
\* public channel and a user's direct-message channel, with every outcome of
\* the channel lookup.
NextChannels ==
    \/ \E u \in TripUsers, ch \in SlashChannels, t \in TripNames2, api \in ApiOutcomes :
          CanType(u, ch) /\ SlashTrip(u, ch, t, api)
    \/ \E u \in Drivers, ch \in SlashChannels, api \in ApiOutcomes :
          CanType(u, ch) /\ SlashCar(u, ch, 1, api)
    \/ \E ch \in SlashChannels, o \in Drivers, api \in ApiOutcomes :
          CanType("A", ch) /\ SlashIn("A", ch, o, api)
    \/ \E u \in Drivers, ch \in SlashChannels, api \in ApiOutcomes :
          CanType(u, ch) /\ SlashOut(u, ch, api)
    \/ \E m \in Pending("approve"), api \in ApiOutcomes : ActionApprove(m, api)

SpecChannels == Init /\ [][NextChannels]_vars

\* Approvals pressed in the owner's direct-message channel, by an owner who
\* also types commands there: a private channel and the owner's
\* direct-message channel, one trip name, and one /trip that can stop before
\* its INSERT.
NextOwnerChannel ==
    \/ \E u \in TripUsers, ch \in OwnerChannels :
          CanType(u, ch) /\ cmd_trip(u, ch, "T1", TRUE, TRUE)
    \/ \E u \in Drivers, ch \in OwnerChannels :
          CanType(u, ch) /\ cmd_trip_begin(u, ch, "T1", TRUE)
    \/ \E r \in inflight, ix \in BOOLEAN : cmd_trip_insert(r, ix)
    \/ \E u \in Drivers, ch \in OwnerChannels, s \in 1 .. MaxSeats :
          CanType(u, ch) /\ cmd_car(u, ch, s)
    \/ \E u \in Drivers, ch \in OwnerChannels : CanType(u, ch) /\ cmd_out(u, ch)
    \/ \E o \in Drivers : cmd_in("A", "X", o)
    \/ \E u \in Drivers, ch \in OwnerChannels : CanType(u, ch) /\ cmd_add(u, ch, {"A"})
    \/ \E m \in Pending("approve") : act_approve(m)

SpecOwnerChannel == Init /\ [][NextOwnerChannel]_vars

\* Cars of several scopes: two channels, two trip names, and the cars made
\* and left on whichever trip is active.
NextScopes ==
    \/ \E u \in TripUsers, ch \in TripChannels, t \in TripNames2 :
          cmd_trip(u, ch, t, TRUE, TRUE)
    \/ \E u \in Drivers, ch \in TripChannels : cmd_car(u, ch, 1)
    \/ \E u \in Drivers, ch \in TripChannels : cmd_out(u, ch)

SpecScopes == Init /\ [][NextScopes]_vars

\* ================================================================== properties
\* row counts the properties speak of
MembershipsInScope(u, ch, trip) ==
    {c \in cars : <<c.id, u>> \in car_members /\ c.channel_id = ch /\ c.trip = trip}
RequestsInTrip(u, trip) ==
    {c \in cars : <<c.id, u>> \in join_requests /\ c.trip = trip}
Seated(c) == Cardinality({u \in Users : <<c.id, u>> \in car_members})

\* C1: in every reachable state each user is a member of at most one car of
\* each (trip, channel) scope.
C1_OneCarPerUser ==
    \A u \in Users, ch \in Channels, t \in TripNames :
        Cardinality(MembershipsInScope(u, ch, t)) <= 1

\* C2: after every addition of members (/add, add_users_to_car, the home-tab
\* confirm-add submission) and every approval, every car has at most as many
\* members as seats.
C2_WithinSeatsAfterAdd ==
    (last.op \in {"add", "add_users", "confirm_add", "approve"}
        /\ last.res \in {"Added", "Approved"})
    => \A c \in cars : Seated(c) <= c.seats

\* C3: in every reachable state each user has at most one pending join request
\* among the cars of one trip.
C3_OnePendingPerUser ==
    \A u \in Users, t \in TripNames : Cardinality(RequestsInTrip(u, t)) <= 1

\* C4: in every reachable state each channel has at most one active trip.
C4_OneActiveTripPerChannel ==
    \A ch \in TripChannels :
        Cardinality({t \in trips : t.channel_id = ch /\ t.active}) <= 1

\* C5: when a user is a member of car K1 and has a pending request on another
\* car K2 of the same trip and channel, and K2 has a free seat, the approval
\* by K2's owner is one step after which the user is a member of K2, is not a
\* member of K1, and the request is gone.
C5_ApproveCompletesSwitch ==
    [][\A m \in Pending("approve") : \A k2 \in CarsById(m.car) : \A k1 \in cars :
         ( /\ act_approve(m)
           /\ m.to = k2.created_by
           /\ k1.id # k2.id /\ k1.trip = k2.trip /\ k1.channel_id = k2.channel_id
           /\ <<k1.id, m.user>> \in car_members
           /\ <<k2.id, m.user>> \notin car_members
           /\ <<k2.id, m.user>> \in join_requests
           /\ Seated(k2) < k2.seats )
         => ( /\ <<k2.id, m.user>> \in car_members'
              /\ <<k1.id, m.user>> \notin car_members'
              /\ <<k2.id, m.user>> \notin join_requests' )]_vars

\* C6 as stated: an approval on a car whose member count is at least its seats
\* adds no membership, deletes the user's request for the car and reports
\* CarFull.
C6_FullCarRefuses ==
    [][\A m \in Pending("approve") : \A car \in CarsById(m.car) :
         (act_approve(m) /\ Seated(car) >= car.seats)
         => ( /\ car_members' \subseteq car_members
              /\ <<m.car, m.user>> \notin join_requests'
              /\ last'.res = "CarFull" )]_vars

\* C6 amended: an approval on a car whose member count is at least its seats,
\* for a user who is not already a member of that car, adds no membership,
\* deletes the user's request for the car and reports CarFull.
C6_FullCarRefusesNonMember ==
    [][\A m \in Pending("approve") : \A car \in CarsById(m.car) :
         ( /\ act_approve(m)
           /\ Seated(car) >= car.seats
           /\ <<m.car, m.user>> \notin car_members )
         => ( /\ car_members' \subseteq car_members
              /\ <<m.car, m.user>> \notin join_requests'
              /\ last'.res = "CarFull" )]_vars

\* the scenario of C6: a car of two seats with two members has refused a third
\* user, whose request is gone
C6_Witness ==
    /\ last.op = "approve" /\ last.res = "CarFull"
    /\ \E c \in CarsById(last.car) : c.seats = 2 /\ Seated(c) = 2
    /\ <<last.car, last.user>> \notin car_members
    /\ <<last.car, last.user>> \notin join_requests

\* C7: approvals of one car that overlap never bring its member count above
\* its seats.
C7_NoOverbookingByApprovals ==
    \A c \in cars : Seated(c) <= c.seats

\* C8: an approve or deny action by a user who is not the creator of the car
\* changes neither car_members nor join_requests.  The action is taken by the
\* user the message was posted to.
C8_OnlyCreatorDecides ==
    [][\A m \in Pending("approve") : \A car \in CarsById(m.car) :
         ((act_approve(m) \/ act_deny(m)) /\ m.to # car.created_by)
         => UNCHANGED <<car_members, join_requests>>]_vars

\* C9: a join request of a user who is a member of a car of the same trip and
\* channel is created only by that user's confirmation of the switch; the
\* request command, the confirmation and its refusal leave every membership
\* as it is, and the refusal creates no request.
C9_SwitchNeedsConfirmation ==
    [][ /\ join_requests' # join_requests =>
             \A u \in Users : \A c \in cars :
             ( /\ <<c.id, u>> \in join_requests' /\ <<c.id, u>> \notin join_requests
               /\ \E k \in cars : /\ <<k.id, u>> \in car_members
                                  /\ k.trip = c.trip /\ k.channel_id = c.channel_id )
             => \E m \in Pending("switch") :
                    m.user = u /\ m.car = c.id /\ act_confirm_car_switch(m)
        /\ car_members' # car_members =>
             /\ \A m \in Pending("switch") :
                   ~act_confirm_car_switch(m) /\ ~act_cancel_car_switch(m)
             /\ \A u \in Users, ch \in Channels, o \in Users : ~cmd_in(u, ch, o)
        /\ join_requests' # join_requests =>
             \A m \in Pending("switch") : ~act_cancel_car_switch(m) ]_vars

\* a member of one car has confirmed a switch: the request on the other car
\* exists and the membership is still there
C9_Witness ==
    /\ last.op = "confirm_switch" /\ last.res = "Requested"
    /\ <<last.car, last.user>> \in join_requests
    /\ \E k \in cars : k.id # last.car /\ <<k.id, last.user>> \in car_members

\* C10: /update n by a car's creator with n >= 1 is refused iff n is below the
\* car's member count; the command itself never changes the seats, a command
\* that is not refused leaves the seats at n or a prompt for n, and the
\* confirmed prompt sets the seats to n.
C10_UpdateSeats ==
    [][ /\ last'.op = "update" =>
           \A u \in Users, ch \in Channels, n \in 1 .. MaxSeats :
           \A t \in ActiveTrips(ch) : \A car \in CarsOwned(ch, t.name, u) :
             cmd_update(u, ch, n)
             => ( /\ (last'.res = "BelowCurrentMembership") <=> (n < Seated(car))
                  /\ cars' = cars
                  /\ last'.res # "BelowCurrentMembership"
                       => \/ car.seats = n
                          \/ \E p \in messages' \ messages :
                               p[1] = Msg("update", car.id, u, u, n) )
        /\ last'.op = "confirm_update" =>
           \A m \in Pending("update") :
             (handle_confirm_update_car(m) /\ last'.res = "Updated")
             => \A c \in cars' : c.id = m.car => c.seats = m.n ]_vars

\* an /update below the member count was refused
C10_Witness ==
    /\ last.op = "update" /\ last.res = "BelowCurrentMembership"
    /\ last.n >= 1
    /\ \E c \in CarsById(last.car) :
          c.created_by = last.user /\ last.n < Seated(c) /\ c.seats >= Seated(c)

\* C11: in the state right after confirm_update_car has written a new seat
\* count, the car has at least as many seats as members, whatever ran between
\* the /update command's check and the confirmation.
C11_ConfirmedSeatsCoverMembers ==
    (last.op = "confirm_update" /\ last.res = "Updated")
    => \A c \in CarsById(last.car) : c.seats >= Seated(c)

\* the ids of the cars of a scope, and the smallest positive integer not among
\* them
ScopeIds(trip, ch) == {c.id : c \in {k \in cars : k.trip = trip /\ k.channel_id = ch}}
SmallestFree(ids) == Min({i \in 1 .. MaxId + 1 : i \notin ids})

C13_DeletionLeavesNoOrphans ==
    [][ /\ last'.op = "delete_trip" =>
             \A u \in Users, t \in TripNames :
               (handle_confirm_delete_trip(u, t) /\ last'.res = "Deleted")
               => /\ \A c \in cars' : c.trip # t
                  /\ \A c \in cars : c.trip = t =>
                        \A x \in car_members' \cup join_requests' : x[1] # c.id
        /\ last'.op \in {"confirm_delete", "out", "member_left"} =>
             \A c \in cars \ cars' :
                \A x \in car_members' \cup join_requests' : x[1] # c.id ]_vars

\* a trip with at least one car has been deleted: no car of it is left, and no
\* membership or request at all
C13_Witness ==
    /\ last.op = "delete_trip" /\ last.res = "Deleted" /\ last.n >= 1
    /\ cars = {} /\ car_members = {} /\ join_requests = {}

\* C14: when a car's creator runs /out the car is deleted and every other user
\* who was a member of the car at that moment is sent a direct message by the
\* handler.
C14_OwnerLeaveNotifiesMembers ==
    [][last'.op = "out" =>
         \A u \in Users, ch \in Channels : \A t \in ActiveTrips(ch) :
         \A car \in CarsOfMember(u, ch, t.name) :
           (cmd_out(u, ch) /\ u = car.created_by /\ last'.car = car.id)
           => /\ car \notin cars'
              /\ \A x \in Users \ {u} : <<car.id, x>> \in car_members => x \in last'.dm ]_vars

\* C15: /in by a user who owns a car of the channel's active trip creates no
\* join request and posts neither a switch confirmation nor an approve/deny
\* message; when the target is another user (the precondition of RequestJoin)
\* it fails with AlreadyOwnsCar.
C15_OwnerCannotRequest ==
    [][last'.op = "in" =>
         \A u \in Riders, ch \in Channels, o \in Users : \A t \in ActiveTrips(ch) :
           ( /\ cmd_in(u, ch, o)
             /\ \E c \in cars : c.channel_id = ch /\ c.trip = t.name /\ c.created_by = u )
           => /\ join_requests' = join_requests
              /\ messages' = messages
              /\ o # u => last'.res = "AlreadyOwnsCar" ]_vars

\* the owner of one car has asked for a seat in another owner's car and was
\* refused
C15_Witness ==
    /\ last.op = "in" /\ last.res = "AlreadyOwnsCar"
    /\ \E c \in cars : c.created_by = last.user
    /\ \E k \in cars : k.created_by # last.user
    /\ \A c \in cars : <<c.id, last.user>> \notin join_requests

\* C16: /cancel by a user with a pending join request on the channel's active
\* trip deletes it, and afterwards the user has no pending request on that
\* trip; without a pending request it fails with NoPendingRequest and changes
\* nothing.
C16_CancelRemovesPending ==
    [][last'.op = "cancel" =>
         \A u \in Users, ch \in Channels : \A t \in ActiveTrips(ch) :
           cmd_cancel(u, ch) =>
             LET pending == {c \in cars : /\ <<c.id, u>> \in join_requests
                                          /\ c.channel_id = ch /\ c.trip = t.name}
             IN IF pending # {}
                THEN /\ last'.res = "Cancelled"
                     /\ \A c \in cars' : (c.channel_id = ch /\ c.trip = t.name)
                                            => <<c.id, u>> \notin join_requests'
                ELSE /\ last'.res = "NoPendingRequest"
                     /\ UNCHANGED <<trips, cars, car_members, join_requests, messages>> ]_vars

\* what a removal by `caller` of `targets` from the car `car_id` may do: delete
\* rows of that car and those targets only, when the caller created the car
\* and the target did not; nothing else changes
BootEffect(caller, car_id, targets) ==
    /\ cars' = cars
    /\ join_requests' = join_requests
    /\ car_members' \subseteq car_members
    /\ \A x \in car_members \ car_members' :
          /\ x[1] = car_id /\ x[2] \in targets
          /\ \E c \in CarsById(car_id) : c.created_by = caller /\ x[2] # c.created_by

\* C17: /boot, boot_users_from_car and the home-tab confirm-boot submission
\* remove a membership only when the caller created the car, the target is a
\* member of it and the target is not the creator; only the target's row of
\* that car is deleted.
C17_BootOnlyByCreator ==
    [][ /\ last'.op = "boot" =>
             \A u \in Users, ch \in Channels, t \in Users :
               cmd_boot(u, ch, t) => BootEffect(u, last'.car, {t})
        /\ last'.op = "boot_users" =>
             \A id \in CarIds, ch \in Channels, u \in Drivers, ms \in UserLists :
               boot_users_from_car(id, ch, u, ms) => BootEffect(u, id, ms)
        /\ last'.op = "confirm_boot" =>
             \A u \in Drivers, id \in CarIds, ms \in UserLists :
               handle_confirm_boot(u, id, ms) => BootEffect(u, id, ms) ]_vars

\* C18: /add by a car's creator naming more users (other than the caller,
\* without duplicates, at least one) than the car has available seats (seats
\* minus member count) is refused with InsufficientSeats and inserts no
\* membership.
C18_AddBeyondSeatsRejected ==
    [][last'.op = "add" =>
         \A u \in Users, ch \in Channels, ms \in UserLists : \A t \in ActiveTrips(ch) :
         \A car \in cars :
           ( /\ cmd_add(u, ch, ms)
             /\ car.channel_id = ch /\ car.trip = t.name /\ car.created_by = u
             /\ ms \ {u} # {}
             /\ Cardinality(ms \ {u}) > car.seats - Seated(car) )
           => /\ last'.res = "InsufficientSeats"
              /\ car_members' = car_members ]_vars

\* two users were named for a car with one seat left, and nobody was added
C18_Witness ==
    /\ last.op = "add" /\ last.res = "InsufficientSeats" /\ last.n = 2
    /\ \E c \in CarsById(last.car) :
          /\ c.created_by = last.user
          /\ c.seats - Seated(c) = 1

\* C19 as stated: /trip with a name that is the active trip of another,
\* reachable channel posts an approval request and changes no trip row.
C19_PendingApprovalElsewhere ==
    [][last'.op = "trip" =>
         \A u \in TripUsers, ch \in TripChannels, t \in TripNames2, pr \in BOOLEAN :
           ( /\ cmd_trip(u, ch, t, TRUE, pr)
             /\ \E r \in trips : r.name = t /\ r.channel_id # ch /\ r.active )
           => /\ trips' = trips
              /\ \E p \in messages' \ messages : p[1].kind = "overwrite" ]_vars

\* C19 amended: /trip with a name that is the active trip of another,
\* reachable channel fails with NameTaken; no trip row is added, removed or
\* changed, no car, membership or request changes, and no approval request is
\* posted.
C19_NameTakenElsewhere ==
    [][last'.op = "trip" =>
         \A u \in TripUsers, ch \in TripChannels, t \in TripNames2, pr \in BOOLEAN :
           ( /\ cmd_trip(u, ch, t, TRUE, pr)
             /\ \E r \in trips : r.name = t /\ r.channel_id # ch /\ r.active )
           => /\ last'.res = "NameTaken"
              /\ UNCHANGED <<trips, cars, car_members, join_requests, messages>> ]_vars

\* a user was refused a name that another user's active trip holds in the
\* other channel, while both channels have an active trip
C19_Witness ==
    /\ last.op = "trip" /\ last.res = "NameTaken"
    /\ \E r \in trips : r.active /\ r.created_by # last.user
    /\ \A ch \in TripChannels : ActiveTrips(ch) # {}

\* C20: /trip with another name, by a user who did not create the channel's
\* active trip while its creator is present in the channel, leaves the trips
\* as they are and posts an approval request to that creator.
C20_SwitchAsksCreator ==
    [][last'.op = "trip" =>
         \A u \in TripUsers, ch \in TripChannels, t \in TripNames2 :
         \A cur \in ActiveTrips(ch) :
           ( /\ cmd_trip(u, ch, t, TRUE, TRUE)
             /\ cur.name # t /\ cur.created_by # u
             /\ NameHeldElsewhere(t, ch) = {} )
           => /\ trips' = trips
              /\ \E p \in messages' \ messages :
                    p[1].kind = "overwrite" /\ p[1].to = cur.created_by ]_vars

\* C21: Trip Delete removes a trip only for its creator: /deletetrip changes
\* no row at all, every trip row the confirmation removes was created by the
\* caller, and a call refused as NotCreator or for a name that no trip has
\* leaves trips, cars, memberships and join requests as they were.
C21_TripDeleteOnlyByCreator ==
    [][/\ last'.op = "deletetrip"
          => UNCHANGED <<trips, cars, car_members, join_requests>>
       /\ last'.op = "delete_trip"
          => /\ \A t \in trips \ trips' : t.created_by = last'.user
             /\ trips' \subseteq trips
             /\ (last'.res \in {"NoTrip", "NotCreator"} \/ trips' = trips)
                => UNCHANGED <<trips, cars, car_members, join_requests>>]_vars

\* a confirmation by a user who did not create the trip is refused while the
\* trip has cars and a pending request
C21_Witness ==
    /\ last.op = "delete_trip" /\ last.res = "NotCreator"
    /\ cars # {} /\ join_requests # {}

\* C22: in every reachable state every car has at least one seat: neither
\* /car with any integer nor a seat update stores a count of zero or less.
C22_SeatsAtLeastOne == \A c \in cars : c.seats >= 1

\* C23: a pending join request is never removed spontaneously: every step
\* that deletes a join_requests row is an approval attempt for that request,
\* a denial of it, the requester's own /cancel, or a step that deletes the
\* car of the request (by itself or with its trip).
C23_RequestsRemovedOnlyOnPurpose ==
    [][join_requests # join_requests' =>
         \A r \in join_requests \ join_requests' :
            \/ last'.op \in {"approve", "deny"} /\ last'.car = r[1] /\ last'.user = r[2]
            \/ last'.op = "cancel" /\ last'.user = r[2]
            \/ \A c \in cars' : c.id # r[1]]_vars

\* a car is deleted while another car keeps its pending request
C23_Witness ==
    /\ last.op \in {"out", "member_left"} /\ last.res \in {"Deleted", "Removed"}
    /\ \E r \in join_requests : \E c \in cars : c.id = r[1]

C25_CarFullOnlyDeletesRequest ==
    [][(last'.op = "approve" /\ last'.res = "CarFull")
         => /\ UNCHANGED <<trips, cars, car_members>>
            /\ join_requests' = join_requests \ {<<last'.car, last'.user>>}]_vars

\* C26: an approval creates a membership only if a pending join request for
\* that (car, user) pair exists at that moment: every approve step that adds
\* the user to the car starts in a state that holds the request.
C26_ApprovalNeedsPendingRequest ==
    [][(last'.op = "approve" /\ <<last'.car, last'.user>> \in car_members' \ car_members)
         => <<last'.car, last'.user>> \in join_requests]_vars

\* C27: creating a car succeeds whenever the creator has no car on the
\* channel's active trip, whatever ids the cars of other scopes have: a /car
\* that does not create the car is one typed in a channel without an active
\* trip or by a user who has a car on that trip.
C27_CarCreatedWhateverOtherScopesHold ==
    [][(last'.op = "car" /\ last'.res # "Created")
         => \A u \in Drivers, ch \in TripChannels :
               cmd_car(u, ch, 1)
                  => \/ ActiveTrips(ch) = {}
                     \/ \E t \in ActiveTrips(ch) : CarsOwned(ch, t.name, u) # {}]_vars

\* C28: in every reachable state the creator of each car is a member of
\* that car.
C28_CreatorIsMember == \A c \in cars : <<c.id, c.created_by>> \in car_members

\* the user is a member of one car and holds a pending request for another
\* car of the same trip
MemberAndRequester(u) ==
    \E c1, c2 \in cars :
        /\ c1.id # c2.id /\ c1.trip = c2.trip
        /\ <<c1.id, u>> \in car_members
        /\ <<c2.id, u>> \in join_requests

\* C29: a user becomes at once a member of one car and the holder of a
\* pending request for a different car of the same trip only by that user's
\* own switch confirmation: every step that produces the combination is a
\* confirm_car_switch of that user.
C29_MemberAndRequesterOnlyBySwitch ==
    [][\A u \in Users :
          (MemberAndRequester(u)' /\ ~MemberAndRequester(u))
             => (last'.op = "confirm_switch" /\ last'.user = u)]_vars

\* C30: when a car is deleted through the delete-car confirmation, every
\* user who was a member of the car at that moment, its owner excepted, is
\* sent a deletion notification.
C30_DeletionNotifiesMembers ==
    [][(last'.op = "confirm_delete" /\ last'.res = "Deleted")
         => {m[2] : m \in {x \in car_members : x[1] = last'.car}} \ {last'.user}
               \subseteq last'.dm]_vars
====
